---------------------------- MODULE Spec2Model ----------------------------
(***************************************************************************)
(* Space simulator (src/main.py): a ship under the gravity of four fixed   *)
(* celestial bodies, a zoomable camera, a render-surface cache per body,   *)
(* and the crash / restart logic of the main loop.                         *)
(*                                                                         *)
(* Numbers.  The program computes with Python floats (IEEE doubles).  TLC  *)
(* has 32-bit integers only, so a float is modelled as a decimal floating  *)
(* point number <<m, e>> standing for m * 10^e, with a mantissa of six     *)
(* significant digits (MantLo <= |m| < MantHi) or <<0, 0>> for zero.       *)
(* Every arithmetic operator rounds its result to six digits, as a double  *)
(* rounds to 53 bits.  The ship's angle only ever holds whole degrees      *)
(* (45.0 plus multiples of 5.0, all exact doubles), so it is an integer.   *)
(***************************************************************************)
EXTENDS Integers, Sequences, FiniteSets

(***************************************************************************)
(* Decimal floating point                                                  *)
(***************************************************************************)
MantLo == 100000

MantHi == 10 * MantLo

Pow10(n) ==
    <<1, 10, 100, 1000, 10000, 100000, 1000000, 10000000, 100000000,
      1000000000>>[n + 1]

\* number of decimal digits of n > 0
Digits(n) ==
    IF n < 10 THEN 1 ELSE IF n < 100 THEN 2 ELSE IF n < 1000 THEN 3
    ELSE IF n < 10000 THEN 4 ELSE IF n < 100000 THEN 5
    ELSE IF n < 1000000 THEN 6 ELSE IF n < 10000000 THEN 7
    ELSE IF n < 100000000 THEN 8 ELSE IF n < 1000000000 THEN 9 ELSE 10

\* m * 10^e for m >= 0, rounded to six digits (half away from zero)
NormMag(m, e) ==
    IF m = 0 THEN <<0, 0>>
    ELSE LET d == Digits(m) - 6
         IN  IF d <= 0 THEN <<m * Pow10(-d), e + d>>
             ELSE LET q == m \div Pow10(d)
                      r == m % Pow10(d)
                      up == IF 2 * r >= Pow10(d) THEN q + 1 ELSE q
                  IN  IF up = MantHi THEN <<MantLo, e + d + 1>>
                      ELSE <<up, e + d>>

FNeg(a) == <<-a[1], a[2]>>

\* the float m * 10^e
F(m, e) == IF m < 0 THEN FNeg(NormMag(-m, e)) ELSE NormMag(m, e)

FAbs(a) == IF a[1] < 0 THEN FNeg(a) ELSE a

\* m \div 10^k truncated toward zero, for any sign of m
ShiftRight(m, k) ==
    IF m < 0 THEN -((-m) \div Pow10(k)) ELSE m \div Pow10(k)

\* a + b where a has the larger exponent; two guard digits are kept
AddAligned(a, b) ==
    LET diff == a[2] - b[2]
    IN  IF diff > 8 THEN a
        ELSE F(a[1] * 100 + ShiftRight(b[1] * 100, diff), a[2] - 2)

FAdd(a, b) ==
    IF a[1] = 0 THEN b
    ELSE IF b[1] = 0 THEN a
    ELSE IF a[2] >= b[2] THEN AddAligned(a, b) ELSE AddAligned(b, a)

FSub(a, b) == FAdd(a, FNeg(b))

\* a < b
FLt(a, b) == FSub(a, b)[1] < 0

FSign(a, b) == IF (a[1] < 0) = (b[1] < 0) THEN 1 ELSE -1

\* floor(x * y / 1000) for six-digit x, y >= 0, without leaving 32 bits
MulHigh(x, y) ==
    LET x1 == x \div 1000
        x0 == x % 1000
        y1 == y \div 1000
        y0 == y % 1000
    IN  x1 * y1 * 1000 + (x1 * y0 + x0 * y1) + ((x0 * y0) \div 1000)

FMul(a, b) ==
    LET p == MulHigh(FAbs(a)[1], FAbs(b)[1])
    IN  F(FSign(a, b) * p, a[2] + b[2] + 3)

\* long division: k further quotient digits of (q + r / y)
RECURSIVE DivDigits(_, _, _, _)
DivDigits(q, r, y, k) ==
    IF k = 0 THEN q
    ELSE DivDigits(q * 10 + ((r * 10) \div y), (r * 10) % y, y, k - 1)

\* a / b for b # 0, seven quotient digits before rounding
FDiv(a, b) ==
    LET x == FAbs(a)[1]
        y == FAbs(b)[1]
        q == DivDigits(x \div y, x % y, y, 7)
    IN  F(FSign(a, b) * q, a[2] - b[2] - 7)

\* largest s in lo..hi with s * s <= n (hi * hi fits in 32 bits)
RECURSIVE IsqrtIn(_, _, _)
IsqrtIn(n, lo, hi) ==
    IF lo >= hi THEN lo
    ELSE LET mid == (lo + hi + 1) \div 2
         IN  IF mid * mid <= n THEN IsqrtIn(n, mid, hi)
             ELSE IsqrtIn(n, lo, mid - 1)

\* one Newton step for the square root of a from the estimate x
SqrtStep(a, x) == FMul(F(5, -1), FAdd(x, FDiv(a, x)))

\* math.sqrt(a) for a >= 0
FSqrt(a) ==
    IF a[1] = 0 THEN a
    ELSE LET odd == a[2] % 2 = 1
             m == IF odd THEN a[1] * 10 ELSE a[1]
             e == IF odd THEN a[2] - 1 ELSE a[2]
             x0 == F(IsqrtIn(m, 0, 4000), e \div 2)
         IN  SqrtStep(a, SqrtStep(a, x0))

\* Python's min(a, b) and max(a, b): the first argument wins a tie
FMin(a, b) == IF FLt(b, a) THEN b ELSE a

FMax(a, b) == IF FLt(a, b) THEN b ELSE a

\* Python's int(a): truncation toward zero
FInt(a) ==
    IF a[2] >= 0 THEN a[1] * Pow10(a[2])
    ELSE IF a[2] < -9 THEN 0
    ELSE ShiftRight(a[1], -a[2])

\* a <= b
FLe(a, b) == ~FLt(b, a)

\* math.sin(math.radians(5 * k)) for k = 0..18, in millionths
SinTable ==
    <<0, 87156, 173648, 258819, 342020, 422618, 500000, 573576, 642788,
      707107, 766044, 819152, 866025, 906308, 939693, 965926, 984808,
      996195, 1000000>>

\* math.sin(math.radians(deg)) for deg a multiple of 5 in 0..359
SinDeg(deg) ==
    IF deg <= 90 THEN F(SinTable[deg \div 5 + 1], -6)
    ELSE IF deg <= 180 THEN F(SinTable[(180 - deg) \div 5 + 1], -6)
    ELSE IF deg <= 270 THEN F(-SinTable[(deg - 180) \div 5 + 1], -6)
    ELSE F(-SinTable[(360 - deg) \div 5 + 1], -6)

\* math.cos(math.radians(deg))
CosDeg(deg) == SinDeg((deg + 90) % 360)

(***************************************************************************)
(* World constants and celestial bodies                                    *)
(***************************************************************************)
WORLD_SCALE == F(100000, 0)

G == FMul(F(667430, -16), F(10, 0))

TIME_STEP == F(100, 0)

EARTH ==
    [name |-> "EARTH", x |-> F(0, 0), y |-> F(0, 0),
     mass |-> F(5972, 21), radius |-> F(6371, 3)]

MOON ==
    [name |-> "MOON", x |-> F(384400, 3), y |-> F(0, 0),
     mass |-> F(734767, 17), radius |-> F(17371, 2)]

SUN ==
    [name |-> "SUN", x |-> F(-1496, 8), y |-> F(0, 0),
     mass |-> F(1989, 27), radius |-> F(696340, 3)]

MARS ==
    [name |-> "MARS", x |-> F(2250, 8), y |-> F(0, 0),
     mass |-> F(639, 21), radius |-> F(33895, 2)]

celestial_bodies == <<EARTH, MOON, SUN, MARS>>

BodyNames == {celestial_bodies[i].name : i \in 1..Len(celestial_bodies)}

(***************************************************************************)
(* Ship                                                                    *)
(***************************************************************************)
\* Ship.__init__: the initial orbit; exc is the exception a method raised
Ship ==
    LET EARTH_RADIUS == F(6371, 3)
        LEO_ALTITUDE == F(40000, 3)
        orbit_radius == FAdd(EARTH_RADIUS, LEO_ALTITUDE)
        velocity_multiplier == F(15, -1)
        orbital_velocity ==
            FMul(velocity_multiplier,
                 FSqrt(FDiv(FMul(G, EARTH.mass), orbit_radius)))
        orbit_angle == 45
    IN  [position |-> <<FMul(FDiv(orbit_radius, WORLD_SCALE), CosDeg(orbit_angle)),
                        FMul(FDiv(orbit_radius, WORLD_SCALE), SinDeg(orbit_angle))>>,
         velocity |-> <<FDiv(FMul(FNeg(orbital_velocity), SinDeg(orbit_angle)),
                             WORLD_SCALE),
                        FDiv(FMul(orbital_velocity, CosDeg(orbit_angle)),
                             WORLD_SCALE)>>,
         angle |-> orbit_angle,
         main_thrust |-> F(1, -1),
         rcs_thrust |-> F(5, -2),
         mass |-> F(1000, 0),
         exc |-> "none"]

\* the displacement from the object to the body, in meters
Displacement(body, obj) ==
    <<FSub(body.x, FMul(obj.position[1], WORLD_SCALE)),
      FSub(body.y, FMul(obj.position[2], WORLD_SCALE))>>

\* (acc_x * TIME_STEP) / WORLD_SCALE, with acc_x = acc * dx / distance
Impulse(acc, dx, distance) ==
    FDiv(FMul(FDiv(FMul(acc, dx), distance), TIME_STEP), WORLD_SCALE)

\* lines 158-164: the acceleration acc along d added to the velocity
Accelerate(obj, d, distance, acc) ==
    [obj EXCEPT
       !.velocity = <<FAdd(@[1], Impulse(acc, d[1], distance)),
                      FAdd(@[2], Impulse(acc, d[2], distance))>>]

\* apply_gravity without the guard of line 149
GravityAtUnguarded(body, obj, d, distance_squared, distance) ==
    IF distance_squared[1] = 0
    THEN [obj EXCEPT !.exc = "ZeroDivisionError"]
    ELSE Accelerate(obj, d, distance,
                    FDiv(FDiv(FMul(FMul(G, body.mass), obj.mass),
                              distance_squared),
                         obj.mass))

\* lines 148-156: the guard and the force; a division by a zero distance
\* raises ZeroDivisionError
GravityAt(body, obj, d, distance_squared, distance) ==
    IF FLt(distance, body.radius) THEN obj
    ELSE IF distance_squared[1] = 0
         THEN [obj EXCEPT !.exc = "ZeroDivisionError"]
    ELSE Accelerate(obj, d, distance,
                    FDiv(FDiv(FMul(FMul(G, body.mass), obj.mass),
                              distance_squared),
                         obj.mass))

\* lines 145-146: distance_squared and distance
GravityAlong(body, obj, d, distance_squared) ==
    GravityAt(body, obj, d, distance_squared, FSqrt(distance_squared))

\* dx * dx + dy * dy
SumOfSquares(d) == FAdd(FMul(d[1], d[1]), FMul(d[2], d[2]))

\* CelestialBody.apply_gravity(obj): the object after the call
apply_gravity(body, obj) ==
    GravityAlong(body, obj, Displacement(body, obj),
                 SumOfSquares(Displacement(body, obj)))

\* the collision test with the ship's position left in world units
CollidesInWorldUnits(body, ship) ==
    FLt(FSqrt(SumOfSquares(<<FSub(body.x, ship.position[1]),
                             FSub(body.y, ship.position[2])>>)),
        body.radius)

\* lines 227-237: distance < body.radius
Collides(body, ship) ==
    FLt(FSqrt(SumOfSquares(Displacement(body, ship))), body.radius)

\* the first body of bodies[i..] the ship is inside, or "None"
RECURSIVE CollisionFrom(_, _, _)
CollisionFrom(bodies, i, ship) ==
    IF i > Len(bodies) THEN "None"
    ELSE IF Collides(bodies[i], ship) THEN bodies[i].name
    ELSE CollisionFrom(bodies, i + 1, ship)

\* Ship.check_planet_collision()
check_planet_collision(ship) == CollisionFrom(celestial_bodies, 1, ship)

\* rotate wrapping below 0 only
rotateWithoutWrap(ship, angle_change) ==
    [ship EXCEPT !.angle = IF @ + angle_change < 0 THEN @ + angle_change + 360
                           ELSE @ + angle_change]

\* Ship.rotate(angle_change)
rotate(ship, angle_change) ==
    [ship EXCEPT !.angle = (@ + angle_change) % 360]

\* Ship.move_forward()
move_forward(ship) ==
    [ship EXCEPT
       !.velocity =
          <<FAdd(@[1], FMul(ship.main_thrust, SinDeg(ship.angle))),
            FSub(@[2], FMul(ship.main_thrust, CosDeg(ship.angle)))>>]

\* lines 266-269: the thrust vector (dx, dy) turned by the heading
RcsTurned(ship, dx, dy, c, s) ==
    [ship EXCEPT
       !.velocity =
          <<FAdd(@[1], FMul(FSub(FMul(dx, c), FMul(dy, s)), ship.rcs_thrust)),
            FAdd(@[2], FMul(FAdd(FMul(dx, s), FMul(dy, c)), ship.rcs_thrust))>>]

\* Ship.apply_rcs(dx, dy), dx and dy in {-1, 0, 1}
apply_rcs(ship, dx, dy) ==
    RcsTurned(ship, F(dx, 0), F(dy, 0), CosDeg(ship.angle), SinDeg(ship.angle))

\* the loop of Ship.update() over bodies[i..]; an exception ends it
RECURSIVE GravityFrom(_, _, _)
GravityFrom(bodies, i, ship) ==
    IF i > Len(bodies) \/ ship.exc # "none" THEN ship
    ELSE GravityFrom(bodies, i + 1, apply_gravity(bodies[i], ship))

\* lines 277-278: position += velocity
Advance(ship) ==
    IF ship.exc # "none" THEN ship
    ELSE [ship EXCEPT
            !.position = <<FAdd(@[1], ship.velocity[1]),
                           FAdd(@[2], ship.velocity[2])>>]

\* update moving the position before gravity is applied
updatePositionFirst(ship) == GravityFrom(celestial_bodies, 1, Advance(ship))

\* Ship.update()
update(ship) == Advance(GravityFrom(celestial_bodies, 1, ship))

(***************************************************************************)
(* Render-surface cache of a celestial body                                *)
(***************************************************************************)
CacheLimit == 20

\* round(zoom, 3), as a whole number of thousandths (ties to even)
RoundMilli(z) ==
    LET t == z[2] + 3
        m == FAbs(z)[1]
        sign == IF z[1] < 0 THEN -1 ELSE 1
    IN  IF t >= 0 THEN z[1] * Pow10(t)
        ELSE IF t < -9 THEN 0
        ELSE LET q == m \div Pow10(-t)
                 r == m % Pow10(-t)
                 half == Pow10(-t) \div 2
             IN  IF r > half \/ (r = half /\ q % 2 = 1) THEN sign * (q + 1)
                 ELSE sign * q

\* the zoom keys of a cache, in insertion order
CacheKeys(cache) == [i \in 1..Len(cache) |-> cache[i].key]

Range(seq) == {seq[i] : i \in 1..Len(seq)}

\* CelestialBody.get_render_surface(zoom): the body's render_surfaces
\* dictionary after the call, as the sequence of its items in
\* insertion order
get_render_surface(cache, body, zoom) ==
    LET zoom_key == RoundMilli(zoom)
        scaled == FInt(FMul(FDiv(body.radius, WORLD_SCALE), zoom))
        screen_radius == IF scaled > 1 THEN scaled ELSE 1
        added == Append(cache, [key |-> zoom_key,
                                screen_radius |-> screen_radius])
    IN  IF zoom_key \in Range(CacheKeys(cache)) THEN cache
        ELSE IF Len(added) > CacheLimit THEN Tail(added)
        ELSE added

\* the order of last use after get_render_surface(zoom): the keys still
\* cached, the least recently looked up or inserted first
Touch(used, cache_after, zoom) ==
    LET zoom_key == RoundMilli(zoom)
        moved == Append(SelectSeq(used, LAMBDA k : k # zoom_key), zoom_key)
    IN  SelectSeq(moved, LAMBDA k : k \in Range(CacheKeys(cache_after)))

(***************************************************************************)
(* Main loop                                                               *)
(***************************************************************************)
VARIABLES
    player_ship,      \* the Ship object
    CAMERA_ZOOM,      \* the zoom level
    game_over,        \* Destroyed (TRUE) or Flying (FALSE)
    running,          \* the loop condition
    render_surfaces,  \* render_surfaces[i]: the cache of celestial_bodies[i]
    last_used,        \* last_used[i]: that cache's keys in order of last use
    stdout,           \* the bodies named by the crash messages printed
    event_queue,      \* the events pygame.event.get() will return
    keys,             \* the keys pygame.key.get_pressed() reports as held
    pc,               \* where the program is
    frames,           \* frames completed (Spec); calls made (other specs)
    call              \* the method called last (SpecUnit, SpecCache)

vars ==
    <<player_ship, CAMERA_ZOOM, game_over, running, render_surfaces,
      last_used, stdout, event_queue, keys, pc, frames, call>>

MaxFrames == 125

HoldFrames == 60

MaxEvents == 1

EventKinds == {"QUIT", "K_n", "K_r"}

EventSeqs == UNION {[1..n -> EventKinds] : n \in 0..MaxEvents}

\* the key combinations the player holds
HeldSets ==
    { {},
      {"K_a", "K_EQUALS"},
      {"K_LEFT", "K_UP", "K_w", "K_MINUS"},
      {"K_RIGHT", "K_d", "K_s", "K_PLUS"},
      {"K_EQUALS", "K_MINUS"},
      {"K_LEFT", "K_RIGHT", "K_a", "K_d", "K_w", "K_s"} }

World ==
    [player_ship |-> player_ship, CAMERA_ZOOM |-> CAMERA_ZOOM,
     game_over |-> game_over, running |-> running, stdout |-> stdout]

\* the event loop's body with a restart that keeps the zoom
HandleEventKeepsZoom(w, event) ==
    LET quit == IF event = "QUIT" THEN [w EXCEPT !.running = FALSE] ELSE w
    IN  IF quit.game_over /\ event = "K_r"
        THEN [quit EXCEPT !.player_ship = Ship, !.game_over = FALSE]
        ELSE quit

\* the event loop's body with a restart that does not test game_over
HandleEventRestartsAnytime(w, event) ==
    LET quit == IF event = "QUIT" THEN [w EXCEPT !.running = FALSE] ELSE w
    IN  IF event = "K_r"
        THEN [quit EXCEPT !.player_ship = Ship,
                          !.game_over = FALSE,
                          !.CAMERA_ZOOM = F(1, 0)]
        ELSE quit

\* the body of the event loop for one event; K_n only swaps the ship's
\* image, which is not part of the state
HandleEvent(w, event) ==
    LET quit == IF event = "QUIT" THEN [w EXCEPT !.running = FALSE] ELSE w
    IN  IF quit.game_over /\ event = "K_r"
        THEN [quit EXCEPT !.player_ship = Ship,
                          !.game_over = FALSE,
                          !.CAMERA_ZOOM = F(1, 0)]
        ELSE quit

\* for event in pygame.event.get(), from the i-th event on
RECURSIVE HandleEvents(_, _, _)
HandleEvents(w, queue, i) ==
    IF i > Len(queue) THEN w
    ELSE HandleEvents(HandleEvent(w, queue[i]), queue, i + 1)

\* lines 404-405
TurnLeft(ship, held) ==
    IF "K_LEFT" \in held THEN rotate(ship, -5) ELSE ship

\* lines 406-407
TurnRight(ship, held) ==
    IF "K_RIGHT" \in held THEN rotate(ship, 5) ELSE ship

\* lines 408-409
Thrust(ship, held) ==
    IF "K_UP" \in held THEN move_forward(ship) ELSE ship

\* lines 412-419: K_d overrides K_a and K_s overrides K_w
Rcs(ship, held) ==
    LET dx == IF "K_d" \in held THEN 1
              ELSE IF "K_a" \in held THEN -1 ELSE 0
        dy == IF "K_s" \in held THEN 1
              ELSE IF "K_w" \in held THEN -1 ELSE 0
    IN  IF dx # 0 \/ dy # 0 THEN apply_rcs(ship, dx, dy) ELSE ship

\* the ship controls: rotation, main thrust and RCS
ShipControls(ship, held) ==
    Rcs(Thrust(TurnRight(TurnLeft(ship, held), held), held), held)

\* the clamp without its lower limit
ClampZoomUpperOnly(zoom) == FMin(zoom, F(10, 0))

\* CAMERA_ZOOM = max(0.1, min(CAMERA_ZOOM, 10))
ClampZoom(zoom) == FMax(F(1, -1), FMin(zoom, F(10, 0)))

\* lines 423-424
ZoomIn(zoom, held, zoom_speed) ==
    IF "K_EQUALS" \in held \/ "K_PLUS" \in held
    THEN FMul(zoom, FAdd(F(1, 0), zoom_speed)) ELSE zoom

\* lines 425-426
ZoomOut(zoom, held, zoom_speed) ==
    IF "K_MINUS" \in held
    THEN FDiv(zoom, FAdd(F(1, 0), zoom_speed)) ELSE zoom

\* the zoom controls
ZoomControls(zoom, held) ==
    ClampZoom(ZoomOut(ZoomIn(zoom, held, F(2, -1)), held, F(2, -1)))

\* lines 435-438: the collision check after update()
Collision(w, collided_body) ==
    IF w.player_ship.exc # "none" \/ collided_body = "None" THEN w
    ELSE [w EXCEPT !.game_over = TRUE,
                   !.stdout = Append(@, collided_body)]

\* the frame with the collision check made on the ship before update()
FlyingCheckFirst(w, held, moved) ==
    Collision([w EXCEPT !.player_ship = moved,
                        !.CAMERA_ZOOM = ZoomControls(@, held)],
              check_planet_collision(w.player_ship))

\* lines 400-432 and the collision check
Flying(w, held, moved) ==
    Collision([w EXCEPT !.player_ship = moved,
                        !.CAMERA_ZOOM = ZoomControls(@, held)],
              check_planet_collision(moved))

\* the game logic without the game_over test of line 399
GameLogicWhileDestroyed(w, held) ==
    Flying(w, held, update(ShipControls(w.player_ship, held)))

\* the game logic of one frame: controls, zoom, update, collision check
GameLogic(w, held) ==
    IF w.game_over THEN w
    ELSE Flying(w, held, update(ShipControls(w.player_ship, held)))

\* the program's globals become those of w
Becomes(w) ==
    /\ player_ship' = w.player_ship
    /\ CAMERA_ZOOM' = w.CAMERA_ZOOM
    /\ game_over' = w.game_over
    /\ running' = w.running
    /\ stdout' = w.stdout

Init ==
    /\ player_ship = Ship
    /\ CAMERA_ZOOM = F(1, 0)
    /\ game_over = FALSE
    /\ running = TRUE
    /\ render_surfaces = [i \in 1..Len(celestial_bodies) |-> <<>>]
    /\ last_used = [i \in 1..Len(celestial_bodies) |-> <<>>]
    /\ stdout = <<>>
    /\ event_queue \in EventSeqs
    /\ keys \in HeldSets
    /\ pc = "events"
    /\ frames = 0
    /\ call = [op |-> "none", arg |-> 0]

\* lines 381-396: drain the event queue
Events ==
    /\ pc = "events"
    /\ frames < MaxFrames
    /\ Becomes(HandleEvents(World, event_queue, 1))
    /\ event_queue' = <<>>
    /\ pc' = "logic"
    /\ UNCHANGED <<render_surfaces, last_used, keys, frames, call>>

\* lines 398-438: the game logic, skipped while game_over; an uncaught
\* exception ends the program
Logic ==
    /\ pc = "logic"
    /\ Becomes(GameLogic(World, keys))
    /\ pc' = IF player_ship'.exc # "none" THEN "done" ELSE "draw"
    /\ UNCHANGED <<render_surfaces, last_used, event_queue, keys, frames, call>>

\* lines 440-481: draw every body (through its render-surface cache),
\* present the frame and wait for the next one; meanwhile the player's
\* input arrives, the held keys changing every HoldFrames frames
Draw ==
    /\ pc = "draw"
    /\ render_surfaces' =
          [i \in 1..Len(celestial_bodies) |->
              get_render_surface(render_surfaces[i], celestial_bodies[i],
                                 CAMERA_ZOOM)]
    /\ last_used' =
          [i \in 1..Len(celestial_bodies) |->
              Touch(last_used[i], render_surfaces'[i], CAMERA_ZOOM)]
    /\ frames' = frames + 1
    /\ event_queue' \in EventSeqs
    /\ keys' \in IF frames' % HoldFrames = 0 THEN HeldSets ELSE {keys}
    /\ pc' = IF running THEN "events" ELSE "done"
    /\ UNCHANGED <<player_ship, CAMERA_ZOOM, game_over, running, stdout, call>>

Next == Events \/ Logic \/ Draw

Spec == Init /\ [][Next]_vars

(***************************************************************************)
(* The methods of Ship and CelestialBody called directly (SpecUnit): a     *)
(* Ship placed anywhere, also inside a body, which the main loop never     *)
(* lets update() see.                                                      *)
(***************************************************************************)
MaxUnitCalls == 3

\* positions in world units: Earth's centre, inside Earth, on Earth's
\* surface, the initial orbit, the Moon's centre, inside the Sun, on the
\* Moon's surface
UnitPositions ==
    { <<F(0, 0), F(0, 0)>>,
      <<F(30, 0), F(-20, 0)>>,
      <<F(6371, -2), F(0, 0)>>,
      Ship.position,
      <<F(3844, 0), F(0, 0)>>,
      <<F(-1496, 3), F(5000, 0)>>,
      <<F(3844, 0), F(17371, -3)>> }

UnitVelocities ==
    { <<F(0, 0), F(0, 0)>>, Ship.velocity, <<F(1, -1), F(-5, -2)>> }

InitUnit ==
    /\ player_ship \in
          {[Ship EXCEPT !.position = p, !.velocity = v] :
              p \in UnitPositions, v \in UnitVelocities}
    /\ CAMERA_ZOOM = F(1, 0)
    /\ game_over = FALSE
    /\ running = TRUE
    /\ render_surfaces = [i \in 1..Len(celestial_bodies) |-> <<>>]
    /\ last_used = [i \in 1..Len(celestial_bodies) |-> <<>>]
    /\ stdout = <<>>
    /\ event_queue = <<>>
    /\ keys = {}
    /\ pc = "unit"
    /\ frames = 0
    /\ call = [op |-> "none", arg |-> 0]

\* celestial_bodies[i].apply_gravity(player_ship)
CallApplyGravity(i) ==
    /\ pc = "unit"
    /\ frames < MaxUnitCalls
    /\ player_ship.exc = "none"
    /\ player_ship' = apply_gravity(celestial_bodies[i], player_ship)
    /\ frames' = frames + 1
    /\ call' = [op |-> "apply_gravity", arg |-> i]
    /\ UNCHANGED <<CAMERA_ZOOM, game_over, running, render_surfaces,
                   last_used, stdout, event_queue, keys, pc>>

\* player_ship.update()
CallUpdate ==
    /\ pc = "unit"
    /\ frames < MaxUnitCalls
    /\ player_ship.exc = "none"
    /\ player_ship' = update(player_ship)
    /\ frames' = frames + 1
    /\ call' = [op |-> "update", arg |-> 0]
    /\ UNCHANGED <<CAMERA_ZOOM, game_over, running, render_surfaces,
                   last_used, stdout, event_queue, keys, pc>>

NextUnit ==
    \/ \E i \in 1..Len(celestial_bodies) : CallApplyGravity(i)
    \/ CallUpdate

SpecUnit == InitUnit /\ [][NextUnit]_vars

(***************************************************************************)
(* get_render_surface called directly (SpecCache), on Earth's cache.  The  *)
(* dictionary treats all keys alike, so a new key is always the next one   *)
(* of ZoomInputs; a lookup of a cached key may come at any time, at most   *)
(* MaxHits times.                                                          *)
(***************************************************************************)
MaxZooms == 21

MaxHits == 2

\* the zoom levels 1.000, 1.001, ... and, rounding to the same keys,
\* 1.0004, 1.0014, ...
ZoomInputs ==
    {F(10000 + 10 * k + d, -4) : k \in 0..(MaxZooms - 1), d \in {0, 4}}

\* the key the next new zoom level gets: one more than the largest so far
NextNewKey(cache) ==
    IF cache = <<>> THEN 1000 ELSE cache[Len(cache)].key + 1

InitCache ==
    /\ player_ship = Ship
    /\ CAMERA_ZOOM = F(1, 0)
    /\ game_over = FALSE
    /\ running = TRUE
    /\ render_surfaces = [i \in 1..Len(celestial_bodies) |-> <<>>]
    /\ last_used = [i \in 1..Len(celestial_bodies) |-> <<>>]
    /\ stdout = <<>>
    /\ event_queue = <<>>
    /\ keys = {}
    /\ pc = "unit"
    /\ frames = 0
    /\ call = [op |-> "none", arg |-> 0]

\* EARTH.get_render_surface(zoom)
CallGetRenderSurface(zoom) ==
    /\ pc = "unit"
    /\ IF RoundMilli(zoom) \in Range(CacheKeys(render_surfaces[1]))
       THEN frames - (NextNewKey(render_surfaces[1]) - 1000) < MaxHits
       ELSE RoundMilli(zoom) = NextNewKey(render_surfaces[1])
    /\ render_surfaces' =
          [render_surfaces EXCEPT
             ![1] = get_render_surface(@, celestial_bodies[1], zoom)]
    /\ last_used' =
          [last_used EXCEPT ![1] = Touch(@, render_surfaces'[1], zoom)]
    /\ frames' = frames + 1
    /\ call' = [op |-> "get_render_surface", arg |-> RoundMilli(zoom)]
    /\ UNCHANGED <<player_ship, CAMERA_ZOOM, game_over, running, stdout,
                   event_queue, keys, pc>>

NextCache == \E zoom \in ZoomInputs : CallGetRenderSurface(zoom)

SpecCache == InitCache /\ [][NextCache]_vars

(***************************************************************************)
(* Claims                                                                  *)
(***************************************************************************)
\* the vector from the ship to the body's centre, in meters (the ship's
\* position times WORLD_SCALE)
MetersTo(body, ship) ==
    <<FSub(body.x, FMul(ship.position[1], WORLD_SCALE)),
      FSub(body.y, FMul(ship.position[2], WORLD_SCALE))>>

SquaredLength(r) == FAdd(FMul(r[1], r[1]), FMul(r[2], r[2]))

\* the centre-to-ship distance in meters is strictly less than the radius
StrictlyInside(body, ship) ==
    FLt(FSqrt(SquaredLength(MetersTo(body, ship))), body.radius)

InsideSomeBody(ship) ==
    \E i \in 1..Len(celestial_bodies) : StrictlyInside(celestial_bodies[i], ship)

\* Newton's impulse of one tick on a test mass at r from the body, d2 the
\* squared length of r: G * M / d2 along r, times TIME_STEP, in world
\* units; the test mass cancels
NewtonImpulse(body, r, d2) ==
    <<FDiv(FMul(FMul(FMul(G, body.mass), TIME_STEP), r[1]),
           FMul(FMul(d2, FSqrt(d2)), WORLD_SCALE)),
      FDiv(FMul(FMul(FMul(G, body.mass), TIME_STEP), r[2]),
           FMul(FMul(d2, FSqrt(d2)), WORLD_SCALE))>>

\* the impulse the body gives the ship: none strictly inside the body
ExpectedImpulse(body, ship) ==
    IF StrictlyInside(body, ship) THEN <<F(0, 0), F(0, 0)>>
    ELSE NewtonImpulse(body, MetersTo(body, ship),
                       SquaredLength(MetersTo(body, ship)))

\* a and b differ by at most twenty units in the sixth digit of scale
Close(a, b, scale) ==
    FLe(FAbs(FSub(a, b)), FMul(F(2, -5), scale))

CloseVector(u, v, scale) ==
    Close(u[1], v[1], scale[1]) /\ Close(u[2], v[2], scale[2])

AddVector(u, v) == <<FAdd(u[1], v[1]), FAdd(u[2], v[2])>>

AbsVector(u) == <<FAbs(u[1]), FAbs(u[2])>>

\* the ship's velocity with the impulses of bodies i.. added one by one
RECURSIVE WithImpulsesFrom(_, _, _)
WithImpulsesFrom(i, ship, velocity) ==
    IF i > Len(celestial_bodies) THEN velocity
    ELSE WithImpulsesFrom(i + 1, ship,
             AddVector(velocity, ExpectedImpulse(celestial_bodies[i], ship)))

\* the sizes of the velocity and of the impulses of bodies i.., summed:
\* the scale the rounding of their sum is measured on
RECURSIVE SizesFrom(_, _, _)
SizesFrom(i, ship, size) ==
    IF i > Len(celestial_bodies) THEN size
    ELSE SizesFrom(i + 1, ship,
             AddVector(size,
                       AbsVector(ExpectedImpulse(celestial_bodies[i], ship))))

\* C1: the zoom is within [0.1, 10] in every state of the main loop, so at
\* the end of every frame, whatever zoom keys are held and across crashes
\* and restarts
C1_ZoomWithinLimits ==
    FLe(F(1, -1), CAMERA_ZOOM) /\ FLe(CAMERA_ZOOM, F(10, 0))

\* the zoom-out key held until the clamp holds the zoom at 0.1
C1_Witness ==
    /\ pc = "draw"
    /\ "K_MINUS" \in keys
    /\ CAMERA_ZOOM = F(1, -1)

\* C2: a step that takes game_over from TRUE to FALSE (a restart) leaves
\* the ship exactly as Ship.__init__ builds it, as at program start, and
\* the zoom at 1.0
C2_RestartResets ==
    [][(game_over /\ ~game_over')
          => (player_ship' = Ship /\ CAMERA_ZOOM' = F(1, 0))]_vars

\* just after a restart that followed a crash
C2_Witness ==
    /\ pc = "logic"
    /\ stdout # <<>>
    /\ ~game_over
    /\ player_ship = Ship
    /\ CAMERA_ZOOM = F(1, 0)

\* C3: a step that starts and ends Destroyed changes neither the ship's
\* position, velocity and angle nor the zoom, whatever keys are held
C3_DestroyedFrozen ==
    [][(game_over /\ game_over')
          => /\ player_ship'.position = player_ship.position
             /\ player_ship'.velocity = player_ship.velocity
             /\ player_ship'.angle = player_ship.angle
             /\ CAMERA_ZOOM' = CAMERA_ZOOM]_vars

\* a Destroyed frame whose events held no restart, with thrust, rotation
\* and zoom keys held
C3_Witness ==
    /\ pc = "logic"
    /\ game_over
    /\ {"K_LEFT", "K_UP", "K_w", "K_MINUS"} \subseteq keys

\* C4: the game logic of a Flying frame ends Destroyed exactly when the
\* ship is then strictly inside a body; game_over becomes TRUE nowhere
\* else, each time with one crash message, and none is printed while
\* Destroyed
C4_CrashExactlyWhenInside ==
    [][/\ (pc = "logic" /\ ~game_over)
             => (game_over' <=> InsideSomeBody(player_ship'))
       /\ (~game_over /\ game_over')
             => (pc = "logic" /\ Len(stdout') = Len(stdout) + 1)
       /\ game_over => stdout' = stdout]_vars

\* the ship has crashed into Earth, once
C4_Witness ==
    /\ pc = "draw"
    /\ game_over
    /\ stdout = <<"EARTH">>
    /\ StrictlyInside(EARTH, player_ship)

\* C5: game_over goes from TRUE to FALSE only when the events of the
\* frame are handled and hold an R key-down; events with an R key-down
\* handled while Flying change neither the ship, nor the zoom, nor
\* game_over
C5_RestartOnlyByR ==
    [][/\ (game_over /\ ~game_over')
             => (pc = "events" /\ "K_r" \in Range(event_queue))
       /\ (pc = "events" /\ ~game_over /\ "K_r" \in Range(event_queue))
             => (/\ player_ship' = player_ship
                 /\ CAMERA_ZOOM' = CAMERA_ZOOM
                 /\ game_over' = game_over)]_vars

\* flying again, a frame's game logic done, after a crash and a restart
C5_Witness ==
    /\ pc = "draw"
    /\ ~game_over
    /\ Len(stdout) = 1

\* C6: the ship's angle is in [0, 360) in every state
C6_AngleNormalized ==
    player_ship.angle >= 0 /\ player_ship.angle < 360

\* the left key held past 0 degrees: rotate(-5) has wrapped to 355
C6_Witness ==
    /\ pc = "draw"
    /\ "K_LEFT" \in keys
    /\ "K_RIGHT" \notin keys
    /\ player_ship.angle = 355

\* C7: apply_gravity leaves the velocity as it is, and raises nothing,
\* when the object is strictly inside the body (also at its centre);
\* otherwise it adds Newton's impulse to the velocity
C7_GravityGuard ==
    [][(call'.op = "apply_gravity" /\ frames' # frames)
          => /\ player_ship'.exc = "none"
             /\ player_ship'.position = player_ship.position
             /\ IF StrictlyInside(celestial_bodies[call'.arg], player_ship)
                THEN player_ship'.velocity = player_ship.velocity
                ELSE CloseVector(
                        player_ship'.velocity,
                        AddVector(player_ship.velocity,
                                  ExpectedImpulse(celestial_bodies[call'.arg],
                                                  player_ship)),
                        AddVector(AbsVector(player_ship.velocity),
                                  AbsVector(
                                     ExpectedImpulse(
                                        celestial_bodies[call'.arg],
                                        player_ship))))]_vars

\* Earth's gravity applied to a ship at Earth's centre
C7_Witness ==
    /\ call = [op |-> "apply_gravity", arg |-> 1]
    /\ player_ship.position = <<F(0, 0), F(0, 0)>>
    /\ player_ship.exc = "none"

\* C8: update() adds the impulse of every body to the velocity, then
\* moves the position by the new velocity, and leaves the angle alone
C8_UpdateSumsThenMoves ==
    [][(call'.op = "update" /\ frames' # frames)
          => /\ CloseVector(player_ship'.velocity,
                            WithImpulsesFrom(1, player_ship,
                                             player_ship.velocity),
                            SizesFrom(1, player_ship,
                                      AbsVector(player_ship.velocity)))
             /\ player_ship'.position =
                   AddVector(player_ship.position, player_ship'.velocity)
             /\ player_ship'.angle = player_ship.angle
             /\ player_ship'.exc = "none"]_vars

\* update() has moved a ship that is outside every body
C8_Witness ==
    /\ call.op = "update"
    /\ ~InsideSomeBody(player_ship)
    /\ player_ship.velocity # Ship.velocity
    /\ player_ship.position # Ship.position

\* C9: a key that leaves a body's cache is the least recently used one
C9_EvictsLeastRecentlyUsed ==
    [][\A i \in 1..Len(celestial_bodies) :
          \A k \in Range(CacheKeys(render_surfaces[i]))
                      \ Range(CacheKeys(render_surfaces'[i])) :
             k = Head(last_used[i])]_vars

\* C10: whenever game_over is FALSE the ship is not strictly inside any
\* body: at program start, at the end of every Flying frame, after every
\* restart
C10_FlyingOutsideBodies ==
    ~game_over => ~InsideSomeBody(player_ship)

\* flying on after a crash and a restart, away from the initial orbit
C10_Witness ==
    /\ pc = "events"
    /\ ~game_over
    /\ stdout # <<>>
    /\ player_ship.position # Ship.position
=============================================================================
